---- MODULE Spec2Model ----
(***************************************************************************)
(* Model of the ESP32 OTA server of src/index.js (Express, filesystem      *)
(* firmware directory).  Every route handler of index.js is synchronous,   *)
(* so one handler invocation is one atomic action.  The firmware directory *)
(* and the server clock belong to the environment and change between       *)
(* requests.  README.md carries a second version of the server that keeps  *)
(* the firmware in an S3 bucket; its release handler suspends at an await, *)
(* and is modelled as the steps between its suspension points (SpecS3).    *)
(*                                                                         *)
(* JavaScript values are represented as follows:                           *)
(*   - a string is a TLA+ string; CodeUnits gives its UTF-16 code units,   *)
(*     which is what the relational operator < and Array.prototype.sort    *)
(*     compare;                                                            *)
(*   - undefined (a query parameter or body field that was not sent) is    *)
(*     the reserved value UNDEFINED;                                       *)
(*   - a plain object used as a map is a function on its own keys; reads   *)
(*     go through the prototype chain (ObjectPrototypeKeys), as obj[key]   *)
(*     does in the source.                                                 *)
(***************************************************************************)
EXTENDS Integers, Sequences, FiniteSets

VARIABLES
    AVAILABLE_FIRMWARE,  \* own properties of the catalog object: version -> release
    devicesDb,           \* own properties of the device registry object
    devicesDbProto,      \* the [[Prototype]] slot of the devicesDb object
    firmwareDir,         \* the firmware directory: filename -> content, or ABSENT
    today,               \* the server clock, as a day number
    last,                \* the request just handled, its response, and the
                         \* accesses the handler made, in order (IDLE when the
                         \* environment has acted since)
    inflight             \* S3 variant (README.md): per caller, the release request
                         \* suspended at "await checkS3File", if any

vars == <<AVAILABLE_FIRMWARE, devicesDb, devicesDbProto, firmwareDir, today, last,
          inflight>>

----------------------------------------------------------------------------
(* Bounds of the model *)

\* The clock runs from day 1 to MaxDay.
MaxDay == 2

----------------------------------------------------------------------------
(* JavaScript values *)

UNDEFINED == "<undefined>"
ABSENT == "<no such file>"

\* UTF-16 code units of the strings the model uses.
CodeUnits(s) ==
    CASE s = ""            -> <<>>
      [] s = "2.2.0"       -> <<50, 46, 50, 46, 48>>
      [] s = "2.3.0"       -> <<50, 46, 51, 46, 48>>
      [] s = "3.1.0"       -> <<51, 46, 49, 46, 48>>
      [] s = "9.0.0"       -> <<57, 46, 48, 46, 48>>
      [] s = "10.0.0"      -> <<49, 48, 46, 48, 46, 48>>
      [] s = "constructor" -> <<99, 111, 110, 115, 116, 114, 117, 99, 116, 111, 114>>
      [] s = "-70"         -> <<45, 55, 48>>
      [] s = "42"          -> <<52, 50>>

\* a < b on two sequences of code units: the first differing unit decides, and a
\* proper prefix is smaller.
RECURSIVE SeqLess(_, _)
SeqLess(a, b) ==
    IF b = <<>> THEN FALSE
    ELSE IF a = <<>> THEN TRUE
    ELSE IF Head(a) # Head(b) THEN Head(a) < Head(b)
    ELSE SeqLess(Tail(a), Tail(b))

\* The JavaScript expression a < b for two strings.
StrLess(a, b) == SeqLess(CodeUnits(a), CodeUnits(b))

\* !x for a string or undefined.
Falsy(x) == x = UNDEFINED \/ x = ""

\* Array.prototype.sort() with no comparator, on an array of distinct strings:
\* ascending by code units.
RECURSIVE SortStrings(_)
SortStrings(S) ==
    IF S = {} THEN <<>>
    ELSE LET m == CHOOSE x \in S : \A y \in S : ~StrLess(y, x)
         IN  <<m>> \o SortStrings(S \ {m})

\* parseInt(s) for a string of an optional sign and decimal digits; a string with
\* no leading digits gives NaN.
RECURSIVE DigitsValue(_, _)
DigitsValue(u, acc) ==
    IF u = <<>> \/ Head(u) < 48 \/ Head(u) > 57 THEN acc
    ELSE DigitsValue(Tail(u), 10 * acc + (Head(u) - 48))

JsNull == [type |-> "null"]
JsNaN == [type |-> "NaN"]
JsNumber(n) == [type |-> "number", value |-> n]

parseInt(s) ==
    LET u == CodeUnits(s)
        neg == u # <<>> /\ Head(u) = 45
        body == IF u # <<>> /\ Head(u) \in {43, 45} THEN Tail(u) ELSE u
    IN  IF body = <<>> \/ Head(body) < 48 \/ Head(body) > 57 THEN JsNaN
        ELSE JsNumber(IF neg THEN 0 - DigitsValue(body, 0) ELSE DigitsValue(body, 0))

\* Property names every plain object inherits from Object.prototype; each of them
\* reads as a truthy value (a function, or Object.prototype itself).
ObjectPrototypeKeys ==
    {"constructor", "__proto__", "toString", "valueOf", "hasOwnProperty"}

\* Whether obj[key] is truthy for a plain object whose own properties are all
\* objects and whose prototype is Object.prototype.
TruthyProperty(obj, key) == key \in DOMAIN obj \/ key \in ObjectPrototypeKeys

\* obj[key] = value on a plain object: "__proto__" is the accessor inherited from
\* Object.prototype and replaces the prototype; any other key becomes an own
\* property.
AssignOwn(obj, key, value) ==
    IF key = "__proto__" THEN obj
    ELSE [k \in DOMAIN obj \cup {key} |-> IF k = key THEN value ELSE obj[k]]

AssignProto(proto, key, value) ==
    IF key = "__proto__" THEN value ELSE proto

ObjectPrototype == [type |-> "Object.prototype"]

----------------------------------------------------------------------------
(* Configuration (index.js 18-41) *)

\* The firmware files named by the shipped catalog, and one more that an operator
\* may upload and release.
Filenames ==
    {"meril_01.ino.esp32_v2_2.bin", "sketch_feb14a_v2_3.ino.bin",
     "sketch_feb16_3_1.ino.esp32.bin"}

\* File contents the firmware directory may hold.
Contents == {"imgA", "imgB"}

InitialFirmware ==
    [v \in {"2.2.0", "2.3.0"} |->
        IF v = "2.2.0"
        THEN [filename |-> "meril_01.ino.esp32_v2_2.bin", release_date |-> "2026-01-15",
              changelog |-> "Initial release", mandatory |-> FALSE]
        ELSE [filename |-> "sketch_feb14a_v2_3.ino.bin", release_date |-> "2026-02-14",
              changelog |-> "Updated version", mandatory |-> FALSE]]

VALID_API_KEYS == {"test123", "prod456"}

\* new Date().toISOString().split('T')[0] on day d of the model's clock: a date
\* later than every release date of the shipped catalog.
IsoDate(d) ==
    CASE d = 1 -> "2026-11-05"
      [] d = 2 -> "2026-11-06"
      [] d = 3 -> "2026-11-07"
      [] OTHER -> "2026-11-08"

----------------------------------------------------------------------------
(* Responses *)

\* res.status(code).json(body)
Json(code, body) == [status |-> code, body |-> body]

\* An exception thrown inside a synchronous handler reaches Express's default
\* error handler, which answers 500.
Thrown(error) == [status |-> 500, body |-> [thrown |-> error]]

\* One access a handler makes, with what it observed.
Op(name, arg, result) == [op |-> name, arg |-> arg, result |-> result]

IDLE == [req |-> [route |-> "none"], res |-> [status |-> 0], ops |-> <<>>]

----------------------------------------------------------------------------
(* verifyApiKey (index.js 48-67) *)

\* authorization.split(' ') for the header values the model sends.
SplitOnSpace(h) ==
    CASE h = "Bearer test123"  -> <<"Bearer", "test123">>
      [] h = "bearer prod456"  -> <<"bearer", "prod456">>
      [] h = "Bearer wrong"    -> <<"Bearer", "wrong">>
      [] h = "Basic test123"   -> <<"Basic", "test123">>
      [] h = "Bearer  test123" -> <<"Bearer", "", "test123">>
      [] h = "test123"         -> <<"test123">>

toLowerCase(s) ==
    CASE s = "Bearer" -> "bearer"
      [] s = "Basic"  -> "basic"
      [] OTHER        -> s

\* Variant: the middleware without the allow-set test of line 61.
verifyApiKey_anyKey(authorization) ==
    IF authorization = UNDEFINED \/ authorization = ""
    THEN [verdict |-> "reject", res |-> Json(401, [detail |-> "No authorization header"])]
    ELSE LET parts == SplitOnSpace(authorization)
         IN  IF Len(parts) # 2 \/ toLowerCase(parts[1]) # "bearer"
             THEN [verdict |-> "reject",
                   res |-> Json(401, [detail |-> "Invalid authorization format"])]
             ELSE [verdict |-> "next", res |-> Json(0, [detail |-> ""])]

\* The middleware's verdict: "next" when the handler is to run, else the response.
verifyApiKey(authorization) ==
    IF authorization = UNDEFINED \/ authorization = ""
    THEN [verdict |-> "reject", res |-> Json(401, [detail |-> "No authorization header"])]
    ELSE LET parts == SplitOnSpace(authorization)
         IN  IF Len(parts) # 2 \/ toLowerCase(parts[1]) # "bearer"
             THEN [verdict |-> "reject",
                   res |-> Json(401, [detail |-> "Invalid authorization format"])]
             ELSE IF parts[2] \notin VALID_API_KEYS
             THEN [verdict |-> "reject", res |-> Json(403, [detail |-> "Invalid API key"])]
             ELSE [verdict |-> "next", res |-> Json(0, [detail |-> ""])]

----------------------------------------------------------------------------
(* The firmware directory (index.js 41, 73-83, and the fs calls of the handlers) *)

\* A fault of the file system during one request: the named call fails.
\* fs.existsSync answers false on any error; fs.readFileSync and fs.statSync throw.
FsFaults == {"none", "existsSync", "readFileSync", "statSync"}

FileContent(dir, filename) ==
    IF filename \in DOMAIN dir THEN dir[filename] ELSE ABSENT

\* fs.existsSync(path.join(FIRMWARE_DIR, filename))
existsSync(dir, filename, fault) ==
    fault # "existsSync" /\ FileContent(dir, filename) # ABSENT

\* The digest of a content: a fixed function of the bytes, distinct contents
\* having distinct digests.
Md5Hex(content) ==
    CASE content = "imgA" -> "md5-of-imgA"
      [] content = "imgB" -> "md5-of-imgB"

\* stats.size
ByteSize(content) ==
    CASE content = "imgA" -> 1024
      [] content = "imgB" -> 2048

\* calculateMd5(filepath)
calculateMd5(dir, filename) == Md5Hex(FileContent(dir, filename))

\* getFileSize(filepath)
getFileSize(dir, filename) == ByteSize(FileContent(dir, filename))

----------------------------------------------------------------------------
(* GET /api/v1/firmware/check (index.js 110-186) *)

\* Object.keys(AVAILABLE_FIRMWARE).sort() and its last element (131-132).
latestVersionOf(catalog) ==
    LET versions == SortStrings(DOMAIN catalog)
    IN  versions[Len(versions)]

\* Variant: an update is offered whenever the versions differ.
needsUpdate_differs(version, latestVersion) == version # latestVersion

\* version < latestVersion (136)
needsUpdate(version, latestVersion) == StrLess(version, latestVersion)

\* The record written to devicesDb (124-128).
DeviceRecord(version, rssi, now) ==
    [last_check |-> now,
     current_version |-> version,
     rssi |-> IF Falsy(rssi) THEN JsNull ELSE parseInt(rssi)]

\* Variant: the locator names the oldest shipped version.
DownloadUrl_oldest(latestVersion) == <<"/api/v1/firmware/download/", "2.2.0">>

\* `${protocol}://${host}/api/v1/firmware/download/${latestVersion}` (165-167).
\* A URL is the sequence of the pieces it is concatenated from after the host;
\* the empty string is the empty sequence.
DownloadUrl(latestVersion) == <<"/api/v1/firmware/download/", latestVersion>>

EmptyUrl == <<>>

\* Variant: the entry of the first version of the sorted list.
latestInfoOf_first(catalog, latestVersion) == catalog[SortStrings(DOMAIN catalog)[1]]

\* AVAILABLE_FIRMWARE[latestVersion] (133)
latestInfoOf(catalog, latestVersion) == catalog[latestVersion]

\* Variant: the up-to-date body repeats the latest release's mandatory flag.
UpToDate_echoingMandatory(latestVersion, latestInfo) ==
    [update_available |-> FALSE,
     latest_version |-> latestVersion,
     download_url |-> EmptyUrl,
     checksum |-> "",
     mandatory |-> latestInfo.mandatory]

\* The body sent when the device is up to date (141-147).
UpToDate(latestVersion, latestInfo) ==
    [update_available |-> FALSE,
     latest_version |-> latestVersion,
     download_url |-> EmptyUrl,
     checksum |-> "",
     mandatory |-> FALSE]

\* The handler after the parameter check and the registry write: lines 130-185.
\* Gives the response and the accesses made, in order.
Negotiate(catalog, dir, version, fault) ==
    LET latestVersion == latestVersionOf(catalog)
        latestInfo == latestInfoOf(catalog, latestVersion)
        read == <<Op("catalog.keys", "", latestVersion),
                  Op("catalog.get", latestVersion, latestInfo.filename)>>
        exists == existsSync(dir, latestInfo.filename, fault)
        probe == <<Op("fs.existsSync", latestInfo.filename,
                      IF exists THEN "true" ELSE "false")>>
    IN  IF ~needsUpdate(version, latestVersion)
        THEN [res |-> Json(200, UpToDate(latestVersion, latestInfo)),
              ops |-> read]
        ELSE IF ~exists
        THEN [res |-> Json(404, [detail |-> "Firmware file not found"]),
              ops |-> read \o probe]
        ELSE IF fault = "readFileSync"
        THEN [res |-> Thrown("readFileSync"),
              ops |-> read \o probe
                      \o <<Op("fs.readFileSync", latestInfo.filename, "throws")>>]
        ELSE IF fault = "statSync"
        THEN [res |-> Thrown("statSync"),
              ops |-> read \o probe
                      \o <<Op("fs.readFileSync", latestInfo.filename, "ok"),
                           Op("fs.statSync", latestInfo.filename, "throws")>>]
        ELSE [res |-> Json(200, [update_available |-> TRUE,
                                 latest_version |-> latestVersion,
                                 download_url |-> DownloadUrl(latestVersion),
                                 checksum |-> calculateMd5(dir, latestInfo.filename),
                                 mandatory |-> latestInfo.mandatory,
                                 changelog |-> latestInfo.changelog,
                                 file_size |-> getFileSize(dir, latestInfo.filename)]),
              ops |-> read \o probe
                      \o <<Op("fs.readFileSync", latestInfo.filename, "ok"),
                           Op("fs.statSync", latestInfo.filename, "ok")>>]

\* Variant: only the device parameter is required.
ParametersPresent_deviceOnly(device, version) == ~Falsy(device)

\* Whether the handler reaches the registry write of line 124: both parameters
\* passed the check of line 113.
ParametersPresent(device, version) == ~(Falsy(device) \/ Falsy(version))

\* Variant: the route registered without the middleware in front of the registry
\* write; the verdict is looked at after the device has been recorded.
Check_recordingFirst(authorization, device, version, rssi, fault) ==
    LET auth == verifyApiKey(authorization)
        req == [route |-> "check", authorization |-> authorization,
                device |-> device, version |-> version, rssi |-> rssi]
        record == DeviceRecord(version, rssi, today)
    IN  /\ UNCHANGED <<AVAILABLE_FIRMWARE, firmwareDir, today, inflight>>
        /\ IF ~ParametersPresent(device, version)
           THEN /\ last' = [req |-> req,
                            res |-> IF auth.verdict # "next" THEN auth.res
                                    ELSE Json(400, [detail |-> "Missing device or version parameter"]),
                            ops |-> <<>>]
                /\ UNCHANGED <<devicesDb, devicesDbProto>>
           ELSE /\ devicesDb' = AssignOwn(devicesDb, device, record)
                /\ devicesDbProto' = AssignProto(devicesDbProto, device, record)
                /\ IF auth.verdict # "next"
                   THEN last' = [req |-> req, res |-> auth.res, ops |-> <<>>]
                   ELSE \E out \in {Negotiate(AVAILABLE_FIRMWARE, firmwareDir, version, fault)} :
                           last' = [req |-> req, res |-> out.res,
                                    ops |-> <<Op("devicesDb.set", device, version)>> \o out.ops]

Check(authorization, device, version, rssi, fault) ==
    LET auth == verifyApiKey(authorization)
        req == [route |-> "check", authorization |-> authorization,
                device |-> device, version |-> version, rssi |-> rssi]
        record == DeviceRecord(version, rssi, today)
    IN  /\ UNCHANGED <<AVAILABLE_FIRMWARE, firmwareDir, today, inflight>>
        /\ IF auth.verdict # "next"
           THEN /\ last' = [req |-> req, res |-> auth.res, ops |-> <<>>]
                /\ UNCHANGED <<devicesDb, devicesDbProto>>
           ELSE IF ~ParametersPresent(device, version)
           THEN /\ last' = [req |-> req,
                            res |-> Json(400, [detail |-> "Missing device or version parameter"]),
                            ops |-> <<>>]
                /\ UNCHANGED <<devicesDb, devicesDbProto>>
           ELSE /\ devicesDb' = AssignOwn(devicesDb, device, record)
                /\ devicesDbProto' = AssignProto(devicesDbProto, device, record)
                /\ \E out \in {Negotiate(AVAILABLE_FIRMWARE, firmwareDir, version, fault)} :
                      last' = [req |-> req, res |-> out.res,
                               ops |-> <<Op("devicesDb.set", device, version)>> \o out.ops]

----------------------------------------------------------------------------
(* GET /api/v1/firmware/download/:version (index.js 188-215) *)

\* AVAILABLE_FIRMWARE[version].filename (195-201): the filename of an own entry;
\* undefined for a name found on the prototype chain only.
FirmwareFilename(catalog, version) ==
    IF version \in DOMAIN catalog THEN catalog[version].filename ELSE UNDEFINED

Download(authorization, version, fault) ==
    LET auth == verifyApiKey(authorization)
        req == [route |-> "download", authorization |-> authorization,
                version |-> version]
        filename == FirmwareFilename(AVAILABLE_FIRMWARE, version)
        lookup == <<Op("catalog.get", version, filename)>>
        exists == existsSync(firmwareDir, filename, fault)
        probe == <<Op("fs.existsSync", filename, IF exists THEN "true" ELSE "false")>>
    IN  /\ UNCHANGED <<AVAILABLE_FIRMWARE, devicesDb, devicesDbProto, firmwareDir, today, inflight>>
        /\ IF auth.verdict # "next"
           THEN last' = [req |-> req, res |-> auth.res, ops |-> <<>>]
           ELSE IF ~TruthyProperty(AVAILABLE_FIRMWARE, version)
           THEN last' = [req |-> req,
                         res |-> Json(404, [detail |-> "Firmware version not found"]),
                         ops |-> lookup]
           ELSE IF filename = UNDEFINED
           THEN \* path.join(FIRMWARE_DIR, undefined) throws a TypeError
                last' = [req |-> req, res |-> Thrown("path.join"), ops |-> lookup]
           ELSE IF ~exists
           THEN last' = [req |-> req,
                         res |-> Json(404, [detail |-> "Firmware file not found"]),
                         ops |-> lookup \o probe]
           ELSE IF fault = "statSync"
           THEN last' = [req |-> req, res |-> Thrown("statSync"),
                         ops |-> lookup \o probe
                                 \o <<Op("fs.statSync", filename, "throws")>>]
           ELSE last' = [req |-> req,
                         res |-> Json(200, [attachment |-> filename,
                                            file |-> FileContent(firmwareDir, filename)]),
                         ops |-> lookup \o probe
                                 \o <<Op("fs.statSync", filename, "ok"),
                                      Op("res.sendFile", filename, "ok")>>]

----------------------------------------------------------------------------
(* GET /admin/devices (index.js 217-222) *)

Devices(authorization) ==
    LET auth == verifyApiKey(authorization)
        req == [route |-> "devices", authorization |-> authorization]
    IN  /\ UNCHANGED <<AVAILABLE_FIRMWARE, devicesDb, devicesDbProto, firmwareDir, today, inflight>>
        /\ IF auth.verdict # "next"
           THEN last' = [req |-> req, res |-> auth.res, ops |-> <<>>]
           ELSE last' = [req |-> req,
                         res |-> Json(200, [total_devices |-> Cardinality(DOMAIN devicesDb),
                                            devices |-> devicesDb]),
                         ops |-> <<Op("devicesDb.keys", "", "ok")>>]

----------------------------------------------------------------------------
(* POST /admin/firmware/release (index.js 224-252) *)

\* Variant: the entry is stamped with the date the server started.
ReleaseRecord_startDate(filename, changelog, mandatory, day) ==
    [filename |-> filename, release_date |-> IsoDate(1),
     changelog |-> changelog, mandatory |-> mandatory]

\* The entry line 240 stores.
ReleaseRecord(filename, changelog, mandatory, day) ==
    [filename |-> filename, release_date |-> IsoDate(day),
     changelog |-> changelog, mandatory |-> mandatory]

\* !version || !filename || !changelog (227)
MissingRequiredField(version, filename, changelog) ==
    Falsy(version) \/ Falsy(filename) \/ Falsy(changelog)

\* Variant: the handler without the check of line 231.
VersionExists_unchecked(catalog, version) == FALSE

\* AVAILABLE_FIRMWARE[version] as a condition (231)
VersionExists(catalog, version) == TruthyProperty(catalog, version)

\* Variant: the handler without the check of lines 235-238.
FirmwareFileMissing_unchecked(dir, filename, fault) == FALSE

\* !fs.existsSync(firmwarePath) (235-236)
FirmwareFileMissing(dir, filename, fault) == ~existsSync(dir, filename, fault)

\* Variant: the catalog is rebuilt from the new entry alone.
InsertRelease_replacing(catalog, version, record) == [k \in {version} |-> record]

\* AVAILABLE_FIRMWARE[version] = record (240)
InsertRelease(catalog, version, record) == AssignOwn(catalog, version, record)

\* The handler's validation (227-238): the response of the first check that
\* fails, or "accept", with the accesses made, in order.
Validate(catalog, dir, version, filename, changelog, fault) ==
    LET lookup == <<Op("catalog.get", version,
                       IF VersionExists(catalog, version) THEN "truthy" ELSE "undefined")>>
        missing == FirmwareFileMissing(dir, filename, fault)
        probe == <<Op("fs.existsSync", filename, IF missing THEN "false" ELSE "true")>>
    IN  IF MissingRequiredField(version, filename, changelog)
        THEN [verdict |-> "reject",
              res |-> Json(400, [detail |-> "Missing required fields"]),
              ops |-> <<>>]
        ELSE IF VersionExists(catalog, version)
        THEN [verdict |-> "reject",
              res |-> Json(400, [detail |-> "Version already exists"]),
              ops |-> lookup]
        ELSE IF missing
        THEN [verdict |-> "reject",
              res |-> Json(404, [detail |-> "Firmware file not found"]),
              ops |-> lookup \o probe]
        ELSE [verdict |-> "accept",
              res |-> Json(200, [status |-> "success",
                                 message |-> <<"Firmware v", version, " released">>,
                                 version |-> version]),
              ops |-> lookup \o probe \o <<Op("catalog.set", version, filename)>>]

\* hasMandatory: whether the body carries "mandatory"; the default is false (225).
Release(authorization, version, filename, changelog, hasMandatory, mandatory, fault) ==
    LET auth == verifyApiKey(authorization)
        flag == IF hasMandatory THEN mandatory ELSE FALSE
        req == [route |-> "release", authorization |-> authorization,
                version |-> version, filename |-> filename, changelog |-> changelog,
                hasMandatory |-> hasMandatory, mandatory |-> mandatory]
    IN  /\ UNCHANGED <<devicesDb, devicesDbProto, firmwareDir, today, inflight>>
        /\ IF auth.verdict # "next"
           THEN /\ last' = [req |-> req, res |-> auth.res, ops |-> <<>>]
                /\ UNCHANGED AVAILABLE_FIRMWARE
           ELSE \E out \in {Validate(AVAILABLE_FIRMWARE, firmwareDir, version, filename,
                                      changelog, fault)} :
                /\ last' = [req |-> req, res |-> out.res, ops |-> out.ops]
                /\ IF out.verdict = "accept"
                   THEN AVAILABLE_FIRMWARE' =
                            InsertRelease(AVAILABLE_FIRMWARE, version,
                                          ReleaseRecord(filename, changelog, flag, today))
                   ELSE UNCHANGED AVAILABLE_FIRMWARE

----------------------------------------------------------------------------
(* GET / and GET /health (index.js 89-108) *)

Root ==
    /\ UNCHANGED <<AVAILABLE_FIRMWARE, devicesDb, devicesDbProto, firmwareDir, today, inflight>>
    /\ last' = [req |-> [route |-> "root"],
                res |-> Json(200, [status |-> "running",
                                   firmware_versions |-> DOMAIN AVAILABLE_FIRMWARE]),
                ops |-> <<Op("catalog.keys", "", "ok")>>]

Health ==
    /\ UNCHANGED <<AVAILABLE_FIRMWARE, devicesDb, devicesDbProto, firmwareDir, today, inflight>>
    /\ last' = [req |-> [route |-> "health"],
                res |-> Json(200, [status |-> "healthy", timestamp |-> today]),
                ops |-> <<>>]

----------------------------------------------------------------------------
(* The S3 variant of the release handler (README.md 384-420).  The bucket takes *)
(* the place of the firmware directory: firmwareDir maps an object key to its   *)
(* content.                                                                     *)

\* Clients whose requests can be in progress at the same time.
Callers == {"a", "b"}

NoRequest == [state |-> "idle"]

\* The response slot of a request that has not been answered yet.
NoResponse == [status |-> 0]

\* The catalog the S3 variant ships with (README.md 136-155).
InitialFirmwareS3 ==
    [v \in {"2.2.0", "2.3.0", "3.1.0"} |->
        CASE v = "2.2.0" ->
               [filename |-> "meril_01.ino.esp32_v2_2.bin", release_date |-> "2026-01-15",
                changelog |-> "Initial release", mandatory |-> FALSE]
          [] v = "2.3.0" ->
               [filename |-> "sketch_feb14a_v2_3.ino.bin", release_date |-> "2026-02-14",
                changelog |-> "Updated version", mandatory |-> TRUE]
          [] v = "3.1.0" ->
               [filename |-> "sketch_feb16_3_1.ino.esp32.bin", release_date |-> "2026-02-16",
                changelog |-> "New features and improvements", mandatory |-> FALSE]]

\* What can happen to the HEAD request: the bucket answers it, or the connection
\* fails ('error' event).
HeadFaults == {"none", "error"}

\* checkS3File(filename) (196-214): exists with the content-length on a 200
\* answer; exists: false on any other answer and on a connection error.
checkS3File(bucket, filename, fault) ==
    IF fault = "error" \/ FileContent(bucket, filename) = ABSENT
    THEN [exists |-> FALSE, size |-> 0]
    ELSE [exists |-> TRUE, size |-> ByteSize(FileContent(bucket, filename))]

\* The handler up to "await checkS3File(filename)" (384-397): the middleware, the
\* field check and the duplicate check run, then the HEAD request is sent and the
\* handler is suspended.
ReleaseS3Begin(c, authorization, version, filename, changelog, hasMandatory, mandatory) ==
    LET auth == verifyApiKey(authorization)
        req == [route |-> "release", caller |-> c, authorization |-> authorization,
                version |-> version, filename |-> filename, changelog |-> changelog,
                hasMandatory |-> hasMandatory, mandatory |-> mandatory]
        lookup == <<Op("catalog.get", version,
                       IF VersionExists(AVAILABLE_FIRMWARE, version)
                       THEN "truthy" ELSE "undefined")>>
    IN  /\ inflight[c].state = "idle"
        /\ UNCHANGED <<AVAILABLE_FIRMWARE, devicesDb, devicesDbProto, firmwareDir, today>>
        /\ IF auth.verdict # "next"
           THEN /\ last' = [req |-> req, res |-> auth.res, ops |-> <<>>]
                /\ UNCHANGED inflight
           ELSE IF MissingRequiredField(version, filename, changelog)
           THEN /\ last' = [req |-> req,
                            res |-> Json(400, [detail |-> "Missing required fields"]),
                            ops |-> <<>>]
                /\ UNCHANGED inflight
           ELSE IF VersionExists(AVAILABLE_FIRMWARE, version)
           THEN /\ last' = [req |-> req,
                            res |-> Json(400, [detail |-> "Version already exists"]),
                            ops |-> lookup]
                /\ UNCHANGED inflight
           ELSE /\ inflight' = [inflight EXCEPT ![c] =
                                   [state |-> "head-sent", req |-> req,
                                    ops |-> lookup
                                            \o <<Op("s3.head", filename, "sent")>>]]
                /\ last' = [req |-> req, res |-> NoResponse, ops |-> lookup]

\* The HEAD request of a suspended handler completes: the promise of
\* checkS3File resolves with what the bucket holds at that moment (200-211).
HeadCompletes(c, fault) ==
    /\ inflight[c].state = "head-sent"
    /\ inflight' = [inflight EXCEPT ![c] =
                       [state |-> "head-done", req |-> inflight[c].req,
                        ops |-> inflight[c].ops,
                        metadata |-> checkS3File(firmwareDir, inflight[c].req.filename,
                                                 fault)]]
    /\ last' = IDLE
    /\ UNCHANGED <<AVAILABLE_FIRMWARE, devicesDb, devicesDbProto, firmwareDir, today>>

\* The handler from the await on (397-415): 404 when the file was reported
\* missing, else the insert and the response with the size the HEAD reported.
\* The promise of checkS3File never rejects, so the catch of 416-419 is not
\* reached.
ReleaseS3Resume(c) ==
    /\ inflight[c].state = "head-done"
    /\ LET req == inflight[c].req
           metadata == inflight[c].metadata
           flag == IF req.hasMandatory THEN req.mandatory ELSE FALSE
       IN  IF ~metadata.exists
           THEN /\ last' = [req |-> req,
                            res |-> Json(404, [detail |-> "Firmware file not found in S3"]),
                            ops |-> inflight[c].ops]
                /\ UNCHANGED AVAILABLE_FIRMWARE
           ELSE /\ AVAILABLE_FIRMWARE' =
                      InsertRelease(AVAILABLE_FIRMWARE, req.version,
                                    ReleaseRecord(req.filename, req.changelog, flag, today))
                /\ last' = [req |-> req,
                            res |-> Json(200, [status |-> "success",
                                               message |-> <<"Firmware v", req.version,
                                                             " released">>,
                                               version |-> req.version,
                                               file_size |-> metadata.size]),
                            ops |-> inflight[c].ops
                                    \o <<Op("catalog.set", req.version, req.filename)>>]
    /\ inflight' = [inflight EXCEPT ![c] = NoRequest]
    /\ UNCHANGED <<devicesDb, devicesDbProto, firmwareDir, today>>

----------------------------------------------------------------------------
(* The environment: the firmware directory and the clock *)

\* A file is written to (or replaced in) the firmware directory.
PutFile(filename, content) ==
    /\ firmwareDir[filename] # content
    /\ firmwareDir' = [firmwareDir EXCEPT ![filename] = content]
    /\ last' = IDLE
    /\ UNCHANGED <<AVAILABLE_FIRMWARE, devicesDb, devicesDbProto, today, inflight>>

\* A file is removed from the firmware directory.
RemoveFile(filename) ==
    /\ firmwareDir[filename] # ABSENT
    /\ firmwareDir' = [firmwareDir EXCEPT ![filename] = ABSENT]
    /\ last' = IDLE
    /\ UNCHANGED <<AVAILABLE_FIRMWARE, devicesDb, devicesDbProto, today, inflight>>

\* Midnight passes.
Tick ==
    /\ today < MaxDay
    /\ today' = today + 1
    /\ last' = IDLE
    /\ UNCHANGED <<AVAILABLE_FIRMWARE, devicesDb, devicesDbProto, firmwareDir, inflight>>

----------------------------------------------------------------------------
(* Specifications *)

\* After the module is loaded: the shipped catalog, an empty registry, and a
\* firmware directory holding the two shipped files.
Init ==
    /\ AVAILABLE_FIRMWARE = InitialFirmware
    /\ devicesDb = << >>
    /\ devicesDbProto = ObjectPrototype
    /\ firmwareDir = [f \in Filenames |->
                        IF f = "sketch_feb16_3_1.ino.esp32.bin" THEN ABSENT ELSE "imgA"]
    /\ today = 1
    /\ last = IDLE
    /\ inflight = [c \in Callers |-> NoRequest]

\* The operator's workload: every shape of release request against a catalog that
\* can gain version 3.1.0, with downloads, a device checking in, and the
\* environment removing and restoring firmware files as midnight passes.
ReleaseVersions == {UNDEFINED, "2.3.0", "3.1.0", "constructor"}
ReleaseFilenames == {UNDEFINED, "sketch_feb14a_v2_3.ino.bin", "sketch_feb16_3_1.ino.esp32.bin"}
ReleaseChangelogs == {"", "New features and improvements", "Hotfix"}
ReleasedFiles == {"sketch_feb14a_v2_3.ino.bin", "sketch_feb16_3_1.ino.esp32.bin"}

Next ==
    \/ \E version \in ReleaseVersions, filename \in ReleaseFilenames,
          changelog \in ReleaseChangelogs, hasMandatory \in BOOLEAN,
          fault \in {"none"} :
          \E mandatory \in (IF hasMandatory THEN BOOLEAN ELSE {FALSE}) :
             Release("Bearer test123", version, filename, changelog,
                     hasMandatory, mandatory, fault)
    \/ \E version \in {"2.2.0", "2.3.0", "3.1.0", "9.0.0", "constructor"} :
          Download("bearer prod456", version, "none")
    \/ Check("Bearer test123", "ESP32_001", "2.2.0", UNDEFINED, "none")
    \/ Devices("Bearer test123")
    \/ Root
    \/ Health
    \/ PutFile("sketch_feb16_3_1.ino.esp32.bin", "imgB")
    \/ RemoveFile("sketch_feb16_3_1.ino.esp32.bin")
    \/ Tick

Spec == Init /\ [][Next]_vars

\* The devices' workload: every shape of check request, from a well-behaved device
\* and from one that calls itself "__proto__", against the catalogs that releasing
\* 3.1.0 and 10.0.0 produces, while firmware files come, change and go.
CheckDevices == {UNDEFINED, "ESP32_001", "__proto__"}
CheckVersions == {"", "2.2.0", "9.0.0", "10.0.0"}
CheckRssis == {UNDEFINED, "-70"}

NextCheck ==
    \/ \E device \in CheckDevices, version \in CheckVersions, rssi \in CheckRssis,
          fault \in FsFaults :
          Check("Bearer test123", device, version, rssi, fault)
    \/ \E version \in {"3.1.0", "10.0.0"} :
          Release("Bearer test123", version, "sketch_feb16_3_1.ino.esp32.bin",
                  "New features and improvements", TRUE, TRUE, "none")
    \/ Devices("Bearer test123")
    \/ PutFile("sketch_feb14a_v2_3.ino.bin", "imgA")
    \/ \E content \in Contents : PutFile("sketch_feb16_3_1.ino.esp32.bin", content)
    \/ \E filename \in ReleasedFiles : RemoveFile(filename)

SpecCheck == Init /\ [][NextCheck]_vars

\* The callers' workload: every protected route called with every shape of
\* Authorization header (none, empty, a valid key under either spelling of the
\* scheme, an unknown key, another scheme, two spaces, a bare key), with payloads
\* that would change the catalog or the registry if the handler ran.
AuthHeaders ==
    {UNDEFINED, "", "Bearer test123", "bearer prod456", "Bearer wrong",
     "Basic test123", "Bearer  test123", "test123"}
AuthDevices == {UNDEFINED, "ESP32_001", "__proto__"}
AuthVersions == {"", "2.2.0", "9.0.0"}

NextAuth ==
    \/ \E authorization \in AuthHeaders, device \in AuthDevices, version \in AuthVersions :
          Check(authorization, device, version, UNDEFINED, "none")
    \/ \E authorization \in AuthHeaders, version \in {"2.3.0", "3.1.0"} :
          Download(authorization, version, "none")
    \/ \E authorization \in AuthHeaders : Devices(authorization)
    \/ \E authorization \in AuthHeaders :
          Release(authorization, "3.1.0", "sketch_feb16_3_1.ino.esp32.bin",
                  "New features and improvements", FALSE, FALSE, "none")
    \/ PutFile("sketch_feb16_3_1.ino.esp32.bin", "imgB")
    \/ RemoveFile("sketch_feb16_3_1.ino.esp32.bin")

SpecAuth == Init /\ [][NextAuth]_vars

\* The S3 variant after the module is loaded: its shipped catalog, and a bucket
\* holding the three objects the catalog names.
InitS3 ==
    /\ AVAILABLE_FIRMWARE = InitialFirmwareS3
    /\ devicesDb = << >>
    /\ devicesDbProto = ObjectPrototype
    /\ firmwareDir = [f \in Filenames |-> "imgA"]
    /\ today = 1
    /\ last = IDLE
    /\ inflight = [c \in Callers |-> NoRequest]

\* Two operators releasing at the same time: each sends release requests for a
\* shipped version and for the new version 4.0.0, naming either of two objects,
\* while objects of the bucket are replaced and removed.
ReleaseVersionsS3 == {"3.1.0", "4.0.0"}
ReleaseFilenamesS3 == {"sketch_feb14a_v2_3.ino.bin", "sketch_feb16_3_1.ino.esp32.bin"}

NextS3 ==
    \/ \E c \in Callers, version \in ReleaseVersionsS3, filename \in ReleaseFilenamesS3,
          changelog \in {"", "Hotfix"} :
          ReleaseS3Begin(c, "Bearer test123", version, filename, changelog, FALSE, FALSE)
    \/ \E c \in Callers, fault \in HeadFaults : HeadCompletes(c, fault)
    \/ \E c \in Callers : ReleaseS3Resume(c)
    \/ PutFile("sketch_feb16_3_1.ino.esp32.bin", "imgB")
    \/ RemoveFile("sketch_feb16_3_1.ino.esp32.bin")

SpecS3 == InitS3 /\ [][NextS3]_vars

----------------------------------------------------------------------------
(* Vocabulary of the properties *)

\* Authorization headers that carry a key of the allow-set under the Bearer scheme.
AcceptedHeaders == {"Bearer test123", "bearer prod456"}

FsOps == {"fs.existsSync", "fs.readFileSync", "fs.statSync", "res.sendFile"}
CatalogOps == {"catalog.keys", "catalog.get", "catalog.set"}

\* Whether a handler made one of the named accesses.
Touches(ops, names) == \E i \in 1..Len(ops) : ops[i].op \in names

MissingRequiredFieldReply == Json(400, [detail |-> "Missing required fields"])
DuplicateVersionReply == Json(400, [detail |-> "Version already exists"])
ArtifactMissingReply == Json(404, [detail |-> "Firmware file not found"])
MissingParameterReply == Json(400, [detail |-> "Missing device or version parameter"])

\* The step handles an authenticated release request.
ReleaseStep ==
    /\ last'.req.route = "release"
    /\ last'.req.authorization \in AcceptedHeaders

\* The request just handled was an authenticated check request.
CheckHandled ==
    /\ last.req.route = "check"
    /\ last.req.authorization \in AcceptedHeaders

----------------------------------------------------------------------------
(* Properties of the release handler, under Spec *)

\* C1: a release request for a version the catalog already holds (in particular
\* one published by an earlier request) is answered 400, as DuplicateVersion
\* whenever its filename and changelog are non-empty, whatever filename, changelog
\* and mandatory flag it carries; and the catalog, with the record stored by the
\* first call, is left as it was.
C1_SecondPublishIsDuplicate ==
    [][ (ReleaseStep /\ last'.req.version \in DOMAIN AVAILABLE_FIRMWARE)
        => /\ last'.res.status = 400
           /\ (last'.req.filename \notin {UNDEFINED, ""} /\ last'.req.changelog \notin {UNDEFINED, ""})
                 => last'.res = DuplicateVersionReply
           /\ AVAILABLE_FIRMWARE' = AVAILABLE_FIRMWARE ]_vars

\* A second release of 3.1.0, with another filename, changelog and mandatory flag
\* than the stored record, has just been refused as a duplicate.
C1_Witness ==
    /\ last.req.route = "release"
    /\ last.req.version = "3.1.0"
    /\ last.res = DuplicateVersionReply
    /\ "3.1.0" \in DOMAIN AVAILABLE_FIRMWARE
    /\ AVAILABLE_FIRMWARE["3.1.0"].filename # last.req.filename
    /\ AVAILABLE_FIRMWARE["3.1.0"].changelog # last.req.changelog
    /\ AVAILABLE_FIRMWARE["3.1.0"].mandatory # last.req.mandatory

\* C2: after a successful release of v, looking v up in the catalog (as the
\* download handler does) finds the published record: the filename, changelog and
\* mandatory flag of the request (false when the request carried none), and the
\* server's current date as release_date.
C2_PublishThenGet ==
    (last.req.route = "release" /\ last.res.status = 200)
    => /\ last.req.version \in DOMAIN AVAILABLE_FIRMWARE
       /\ FirmwareFilename(AVAILABLE_FIRMWARE, last.req.version) = last.req.filename
       /\ AVAILABLE_FIRMWARE[last.req.version] =
             [filename |-> last.req.filename,
              release_date |-> IsoDate(today),
              changelog |-> last.req.changelog,
              mandatory |-> (last.req.hasMandatory /\ last.req.mandatory)]

\* Version 3.1.0 has just been released as mandatory, on the second day.
C2_Witness ==
    /\ last.req.route = "release"
    /\ last.res.status = 200
    /\ last.req.version = "3.1.0"
    /\ last.req.mandatory
    /\ today = 2
    /\ AVAILABLE_FIRMWARE["3.1.0"].release_date = "2026-11-06"

\* C3: every step, whatever request it handles, keeps every catalog key and the
\* record it maps to.
C3_CatalogOnlyGrows ==
    [][ \A v \in DOMAIN AVAILABLE_FIRMWARE :
           /\ v \in DOMAIN AVAILABLE_FIRMWARE'
           /\ AVAILABLE_FIRMWARE'[v] = AVAILABLE_FIRMWARE[v] ]_vars

\* The catalog has grown to three versions, the shipped two are as shipped, and a
\* device has checked in since.
C3_Witness ==
    /\ DOMAIN AVAILABLE_FIRMWARE = {"2.2.0", "2.3.0", "3.1.0"}
    /\ \A v \in DOMAIN InitialFirmware : AVAILABLE_FIRMWARE[v] = InitialFirmware[v]
    /\ last.req.route = "check"

\* C4: a release request that is not accepted leaves the catalog as it was; a
\* request naming a file the firmware directory does not hold is never accepted;
\* and one answered ArtifactMissing is answered 404, names such a file, and its
\* version is not a catalog key afterwards.
C4_FailedReleaseLeavesCatalog ==
    [][ ReleaseStep
        => /\ (last'.res.status # 200) => AVAILABLE_FIRMWARE' = AVAILABLE_FIRMWARE
           /\ FileContent(firmwareDir, last'.req.filename) = ABSENT
                 => last'.res.status \in {400, 404}
           /\ (last'.res.status = 404)
                 => /\ last'.res = ArtifactMissingReply
                    /\ FileContent(firmwareDir, last'.req.filename) = ABSENT
                    /\ last'.req.version \notin DOMAIN AVAILABLE_FIRMWARE' ]_vars

\* A release of the new version 3.1.0 naming a file that is not in the firmware
\* directory has just been answered 404.
C4_Witness ==
    /\ last.req.route = "release"
    /\ last.req.version = "3.1.0"
    /\ last.res = ArtifactMissingReply
    /\ firmwareDir[last.req.filename] = ABSENT
    /\ "3.1.0" \notin DOMAIN AVAILABLE_FIRMWARE

\* C5: the response of a release request is that of the first failing check in
\* the order (1) a field is missing or empty, (2) the version is a catalog key,
\* (3) the firmware directory does not hold the file; the directory is not
\* consulted when check 1 or 2 fails; and a request passing all three is accepted.
C5_ValidationOrder ==
    [][ ReleaseStep
        => IF \/ last'.req.version \in {UNDEFINED, ""}
              \/ last'.req.filename \in {UNDEFINED, ""}
              \/ last'.req.changelog \in {UNDEFINED, ""}
           THEN last'.res = MissingRequiredFieldReply /\ ~Touches(last'.ops, FsOps)
           ELSE IF last'.req.version \in DOMAIN AVAILABLE_FIRMWARE
           THEN last'.res = DuplicateVersionReply /\ ~Touches(last'.ops, FsOps)
           ELSE IF FileContent(firmwareDir, last'.req.filename) = ABSENT
           THEN last'.res = ArtifactMissingReply
           ELSE last'.res.status = 200 ]_vars

----------------------------------------------------------------------------
(* Properties of the check handler, under SpecCheck *)

\* Lexicographic order of two sequences of code units, stated directly: at the
\* first position where they differ a has the smaller unit, or a ends there.
LexLess(a, b) ==
    \E i \in 1..Len(b) :
       /\ i <= Len(a) + 1
       /\ \A j \in 1..(i - 1) : a[j] = b[j]
       /\ (i = Len(a) + 1 \/ a[i] < b[i])

\* The greatest key of a catalog in that order.
LexLatest(catalog) ==
    CHOOSE k \in DOMAIN catalog :
       \A j \in DOMAIN catalog : j = k \/ LexLess(CodeUnits(j), CodeUnits(k))

\* The request just handled was an authenticated check request carrying a device
\* and a version.
CheckNegotiated ==
    /\ CheckHandled
    /\ last.req.device \notin {UNDEFINED, ""}
    /\ last.req.version \notin {UNDEFINED, ""}

\* The reported version of the request just handled is below the latest version.
ReportedIsOlder ==
    LexLess(CodeUnits(last.req.version), CodeUnits(LexLatest(AVAILABLE_FIRMWARE)))

\* C6: a check answers with latest_version the greatest catalog key in the
\* lexicographic order of the raw strings and with update_available telling
\* whether the reported version is below it in that same order (a check that
\* fails instead was for a version below it).  With the catalog {2.2.0, 2.3.0,
\* 3.1.0}: 2.2.0 is offered 3.1.0 and 9.0.0 is offered nothing.  The order is not
\* the numeric one: 10.0.0 is never the latest, and a device reporting 10.0.0 is
\* offered an update.
C6_LexicographicDecision ==
    CheckNegotiated
    => /\ (last.res.status = 200)
             => /\ last.res.body.latest_version = LexLatest(AVAILABLE_FIRMWARE)
                /\ last.res.body.update_available = ReportedIsOlder
       /\ (last.res.status # 200) => ReportedIsOlder
       /\ (DOMAIN AVAILABLE_FIRMWARE = {"2.2.0", "2.3.0", "3.1.0"}
             /\ last.req.version = "2.2.0" /\ last.res.status = 200)
             => /\ last.res.body.update_available
                /\ last.res.body.latest_version = "3.1.0"
       /\ (DOMAIN AVAILABLE_FIRMWARE = {"2.2.0", "2.3.0", "3.1.0"}
             /\ last.req.version = "9.0.0")
             => /\ last.res.status = 200
                /\ ~last.res.body.update_available
       /\ (last.res.status = 200) => last.res.body.latest_version # "10.0.0"
       /\ (last.req.version = "10.0.0" /\ last.res.status = 200)
             => last.res.body.update_available

\* With 10.0.0 in the catalog, a device reporting 10.0.0 has just been offered
\* 2.3.0.
C6_Witness ==
    /\ CheckHandled
    /\ DOMAIN AVAILABLE_FIRMWARE = {"2.2.0", "2.3.0", "10.0.0"}
    /\ last.req.version = "10.0.0"
    /\ last.res.status = 200
    /\ last.res.body.update_available
    /\ last.res.body.latest_version = "2.3.0"

\* C7: a check whose reported version is not below the latest version is answered
\* 200 with exactly update_available false, the latest version, an empty
\* download_url, an empty checksum and mandatory false, and the handler makes no
\* access to the firmware directory.
C7_UpToDateReply ==
    (CheckNegotiated /\ ~ReportedIsOlder)
    => /\ last.res = Json(200, [update_available |-> FALSE,
                                latest_version |-> LexLatest(AVAILABLE_FIRMWARE),
                                download_url |-> EmptyUrl,
                                checksum |-> "",
                                mandatory |-> FALSE])
       /\ ~Touches(last.ops, FsOps)

\* The latest release, 3.1.0, is mandatory, and a device reporting 9.0.0 has just
\* been told it is up to date, with mandatory false.
C7_Witness ==
    /\ CheckHandled
    /\ last.req.version = "9.0.0"
    /\ "3.1.0" \in DOMAIN AVAILABLE_FIRMWARE
    /\ AVAILABLE_FIRMWARE["3.1.0"].mandatory
    /\ last.res.status = 200
    /\ ~last.res.body.update_available
    /\ ~last.res.body.mandatory

\* The firmware directory told the handler that the file is not there.
ReportedAbsent(filename) ==
    \E i \in 1..Len(last.ops) : last.ops[i] = Op("fs.existsSync", filename, "false")

\* The body of an update offer for the latest release of the catalog, computed
\* from the catalog record and the file in the firmware directory.
UpdateOffer ==
    LET latest == LexLatest(AVAILABLE_FIRMWARE)
        info == AVAILABLE_FIRMWARE[latest]
        content == FileContent(firmwareDir, info.filename)
    IN  [update_available |-> TRUE,
         latest_version |-> latest,
         download_url |-> <<"/api/v1/firmware/download/", latest>>,
         checksum |-> Md5Hex(content),
         mandatory |-> info.mandatory,
         changelog |-> info.changelog,
         file_size |-> ByteSize(content)]

\* The handler failed while reading the file or asking for its size.
ReadFailed ==
    /\ last.res.status = 500
    /\ \E i \in 1..Len(last.ops) :
          /\ last.ops[i].op \in {"fs.readFileSync", "fs.statSync"}
          /\ last.ops[i].result = "throws"

\* C8 as stated: a check for a version below the latest is answered 404 when the
\* firmware directory reports the latest release's file absent (as it does when
\* the file is absent), and otherwise 200 with the update offer.
C8_UpdateReply_AsStated ==
    (CheckNegotiated /\ ReportedIsOlder)
    => LET filename == AVAILABLE_FIRMWARE[LexLatest(AVAILABLE_FIRMWARE)].filename
       IN  /\ FileContent(firmwareDir, filename) = ABSENT => ReportedAbsent(filename)
           /\ ReportedAbsent(filename) => last.res = ArtifactMissingReply
           /\ ~ReportedAbsent(filename) => last.res = Json(200, UpdateOffer)

\* C8, amended: ... and otherwise, unless reading the file or asking for its size
\* fails (the request then fails with 500), 200 with the update offer.
C8_UpdateReply ==
    (CheckNegotiated /\ ReportedIsOlder)
    => LET filename == AVAILABLE_FIRMWARE[LexLatest(AVAILABLE_FIRMWARE)].filename
       IN  /\ FileContent(firmwareDir, filename) = ABSENT => ReportedAbsent(filename)
           /\ ReportedAbsent(filename) => last.res = ArtifactMissingReply
           /\ ~ReportedAbsent(filename)
                 => (last.res = Json(200, UpdateOffer) \/ ReadFailed)

\* A device reporting 2.2.0 has just been offered the mandatory release 3.1.0 with
\* the digest and size of its file.
C8_Witness ==
    /\ CheckHandled
    /\ last.req.version = "2.2.0"
    /\ last.res.status = 200
    /\ last.res.body.update_available
    /\ last.res.body.latest_version = "3.1.0"
    /\ last.res.body.mandatory
    /\ last.res.body.checksum = "md5-of-imgB"
    /\ last.res.body.file_size = 2048
    /\ last.res.body.changelog = "New features and improvements"

\* C9: an authenticated check request without a device or without a version
\* (absent or empty) is answered 400 MissingParameter, and the handler makes no
\* access to the catalog or the firmware directory (it makes none at all).
C9_MissingParameter ==
    (CheckHandled /\ (last.req.device \in {UNDEFINED, ""} \/ last.req.version \in {UNDEFINED, ""}))
    => /\ last.res = MissingParameterReply
       /\ ~Touches(last.ops, CatalogOps \cup FsOps)
       /\ last.ops = <<>>

\* A check carrying a version but no device has just been refused.
C9_Witness ==
    /\ CheckHandled
    /\ last.req.device = UNDEFINED
    /\ last.req.version = "2.2.0"
    /\ last.res = MissingParameterReply

\* C10: after a check request carrying a device and a version, whatever its
\* outcome, the registry holds an entry for that device with the reported version
\* and the rssi (null when none was sent).
C10_DeviceRecorded ==
    CheckNegotiated
    => /\ last.req.device \in DOMAIN devicesDb
       /\ devicesDb[last.req.device].current_version = last.req.version
       /\ devicesDb[last.req.device].rssi =
             (IF last.req.rssi = "-70" THEN JsNumber(0 - 70) ELSE JsNull)

----------------------------------------------------------------------------
(* Properties of the device registry, under SpecCheck *)

\* The step handles an authenticated check request carrying a device and a
\* version: the handler reaches the registry write of line 124.
RecordingStep ==
    /\ last'.req.route = "check"
    /\ last'.req.authorization \in AcceptedHeaders
    /\ last'.req.device \notin {UNDEFINED, ""}
    /\ last'.req.version \notin {UNDEFINED, ""}

\* C11: the registry is the set of recorded devices, one entry each, with the
\* values of the latest recording.  Step by step: no step removes an entry; a
\* check carrying a device and a version leaves an entry for that device with the
\* reported version and rssi and every other entry as it was; no other step
\* changes the registry; and the device list answers with the registry and, as
\* total_devices, the number of its entries.
C11_DeviceList ==
    [][ /\ \A d \in DOMAIN devicesDb : d \in DOMAIN devicesDb'
        /\ RecordingStep
              => /\ last'.req.device \in DOMAIN devicesDb'
                 /\ devicesDb'[last'.req.device].current_version = last'.req.version
                 /\ devicesDb'[last'.req.device].rssi =
                       (IF last'.req.rssi = "-70" THEN JsNumber(0 - 70) ELSE JsNull)
                 /\ \A d \in DOMAIN devicesDb' \ {last'.req.device} :
                       d \in DOMAIN devicesDb /\ devicesDb'[d] = devicesDb[d]
        /\ ~RecordingStep => devicesDb' = devicesDb
        /\ (last'.req.route = "devices" /\ last'.req.authorization \in AcceptedHeaders)
              => /\ last'.res.status = 200
                 /\ last'.res.body.devices = devicesDb'
                 /\ last'.res.body.total_devices = Cardinality(DOMAIN devicesDb') ]_vars

----------------------------------------------------------------------------
(* Properties of the download handler, under Spec *)

VersionNotFoundReply == Json(404, [detail |-> "Firmware version not found"])

\* The request just handled was an authenticated download request.
DownloadHandled ==
    /\ last.req.route = "download"
    /\ last.req.authorization \in AcceptedHeaders

\* C12: a download of a version that is not a catalog key is answered 404
\* VersionNotFound and the handler makes no access to the firmware directory; a
\* download of a catalog key whose file the firmware directory does not hold is
\* answered 404 ArtifactMissing; any other download is answered with the content
\* of the file the release names, sent under that filename.
C12_Download ==
    DownloadHandled
    => IF last.req.version \notin DOMAIN AVAILABLE_FIRMWARE
       THEN last.res = VersionNotFoundReply /\ ~Touches(last.ops, FsOps)
       ELSE LET filename == AVAILABLE_FIRMWARE[last.req.version].filename
            IN  IF FileContent(firmwareDir, filename) = ABSENT
                THEN last.res = ArtifactMissingReply
                ELSE last.res = Json(200, [attachment |-> filename,
                                           file |-> FileContent(firmwareDir, filename)])

----------------------------------------------------------------------------
(* Properties of the middleware and of what each route changes, under SpecAuth *)

ProtectedRoutes == {"check", "download", "devices", "release"}

\* Header values that are not one scheme and one token separated by one space, or
\* whose scheme is not Bearer.
MalformedHeaders == {"", "Basic test123", "Bearer  test123", "test123"}

\* Header values of the form Bearer <token> whose token is not in the allow-set.
UnknownKeyHeaders == {"Bearer wrong"}

\* C13: on each of the four protected routes, a request without an Authorization
\* header is answered 401, one whose header is not of the form Bearer <token> is
\* answered 401, one whose token is not in the allow-set is answered 403, in each
\* case before the handler has made any access; a request with an allow-set token
\* is answered by the handler; and only such a request is.
C13_AuthenticationFirst ==
    last.req.route \in ProtectedRoutes
    => /\ last.req.authorization = UNDEFINED => last.res.status = 401
       /\ last.req.authorization \in MalformedHeaders => last.res.status = 401
       /\ last.req.authorization \in UnknownKeyHeaders => last.res.status = 403
       /\ last.req.authorization \notin AcceptedHeaders => last.ops = <<>>
       /\ last.req.authorization \in AcceptedHeaders <=> last.res.status \notin {401, 403}

\* With 3.1.0 released by a caller holding a key, a download of it under an
\* unknown key has just been refused 403 before any access.
C13_Witness ==
    /\ "3.1.0" \in DOMAIN AVAILABLE_FIRMWARE
    /\ last.req.route = "download"
    /\ last.req.version = "3.1.0"
    /\ last.req.authorization = "Bearer wrong"
    /\ last.res = Json(403, [detail |-> "Invalid API key"])
    /\ last.ops = <<>>

\* C19: a request to a protected route answered 401 or 403 leaves the catalog and
\* the registry (its entries and its prototype slot) as they were, and the handler
\* makes no access to the firmware directory.
C19_RejectedChangesNothing ==
    [][ (last'.req.route \in ProtectedRoutes /\ last'.res.status \in {401, 403})
        => /\ AVAILABLE_FIRMWARE' = AVAILABLE_FIRMWARE
           /\ devicesDb' = devicesDb
           /\ devicesDbProto' = devicesDbProto
           /\ firmwareDir' = firmwareDir
           /\ ~Touches(last'.ops, FsOps) ]_vars

\* A check reporting 9.0.0 for ESP32_001 under an unknown key has just been
\* refused, and the registry still holds the 2.2.0 the device reported before.
C19_Witness ==
    /\ last.req.route = "check"
    /\ last.req.authorization = "Bearer wrong"
    /\ last.req.device = "ESP32_001"
    /\ last.req.version = "9.0.0"
    /\ last.res.status = 403
    /\ "ESP32_001" \in DOMAIN devicesDb
    /\ devicesDb["ESP32_001"].current_version = "2.2.0"

\* C20: a check, download or device-list request leaves the catalog, and so its
\* latest version, as it was; a release, download or device-list request leaves
\* the registry as it was; and a check lacking its device or its version is
\* answered MissingParameter and, like any check so answered, changes neither.
C20_OwnedState ==
    [][ /\ last'.req.route \in {"check", "download", "devices"}
              => /\ AVAILABLE_FIRMWARE' = AVAILABLE_FIRMWARE
                 /\ latestVersionOf(AVAILABLE_FIRMWARE') = latestVersionOf(AVAILABLE_FIRMWARE)
        /\ last'.req.route \in {"release", "download", "devices"}
              => /\ devicesDb' = devicesDb
                 /\ devicesDbProto' = devicesDbProto
        /\ (last'.req.route = "check" /\ last'.req.authorization \in AcceptedHeaders
              /\ (last'.req.device \in {UNDEFINED, ""} \/ last'.req.version \in {UNDEFINED, ""}))
              => last'.res = MissingParameterReply
        /\ (last'.req.route = "check" /\ last'.res = MissingParameterReply)
              => /\ AVAILABLE_FIRMWARE' = AVAILABLE_FIRMWARE
                 /\ devicesDb' = devicesDb
                 /\ devicesDbProto' = devicesDbProto ]_vars

\* With 3.1.0 released and ESP32_001 recorded, a check for ESP32_001 without a
\* version has just been refused, and the registry holds what the device reported
\* before.
C20_Witness ==
    /\ DOMAIN AVAILABLE_FIRMWARE = {"2.2.0", "2.3.0", "3.1.0"}
    /\ last.req.route = "check"
    /\ last.req.device = "ESP32_001"
    /\ last.req.version = ""
    /\ last.res = MissingParameterReply
    /\ "ESP32_001" \in DOMAIN devicesDb
    /\ devicesDb["ESP32_001"].current_version = "9.0.0"

----------------------------------------------------------------------------
(* Further properties of the release handler *)

\* C14 (under Spec): after a release request is accepted, the stored record
\* carries the server's current date as release_date, and the response carries,
\* as file_size, the byte size of the released file.
C14_AcceptedRelease ==
    (last.req.route = "release" /\ last.res.status = 200)
    => /\ AVAILABLE_FIRMWARE[last.req.version].release_date = IsoDate(today)
       /\ "file_size" \in DOMAIN last.res.body
       /\ last.res.body.file_size = ByteSize(FileContent(firmwareDir, last.req.filename))

\* The handler's access to the blob store failed: fs.existsSync answered false
\* for a file the firmware directory holds, or a read or size query threw.
BlobIoFailed ==
    \E i \in 1..Len(last.ops) :
       \/ /\ last.ops[i].op = "fs.existsSync"
          /\ last.ops[i].result = "false"
          /\ FileContent(firmwareDir, last.ops[i].arg) # ABSENT
       \/ /\ last.ops[i].op \in {"fs.readFileSync", "fs.statSync"}
          /\ last.ops[i].result = "throws"

\* C15 (under SpecCheck): a check during which an access to the blob store fails
\* (the existence test, the read for the checksum, or the size query) is answered
\* 500, after one attempt at each access; it is answered neither 404 nor 200.
C15_BlobFailureIsTransient ==
    (CheckNegotiated /\ BlobIoFailed)
    => /\ last.res.status = 500
       /\ \A i, j \in 1..Len(last.ops) : last.ops[i].op = last.ops[j].op => i = j

\* C16 (under SpecS3): among release requests in progress at the same time, a
\* request is accepted only for a version that is not a catalog key at the moment
\* of the insert, a request that completes while its version is a catalog key is
\* answered DuplicateVersion, and no step changes the record of a catalog key.
C16_ReleaseAtomic ==
    [][ /\ \A v \in DOMAIN AVAILABLE_FIRMWARE :
              /\ v \in DOMAIN AVAILABLE_FIRMWARE'
              /\ AVAILABLE_FIRMWARE'[v] = AVAILABLE_FIRMWARE[v]
        /\ (last'.req.route = "release" /\ last'.res.status = 200)
              => last'.req.version \notin DOMAIN AVAILABLE_FIRMWARE
        /\ (last'.req.route = "release" /\ last'.res.status \notin {0, 401, 403}
              /\ last'.req.changelog # ""
              /\ last'.req.version \in DOMAIN AVAILABLE_FIRMWARE)
              => last'.res = DuplicateVersionReply ]_vars

\* The step adds no catalog key except by an authenticated release request that
\* is accepted, names the new key's file, and was told by the firmware directory,
\* which held the file at that moment, that the file exists; and the step leaves
\* the record of every key it found as it was.
CreatedByValidatedRelease ==
    \A v \in DOMAIN AVAILABLE_FIRMWARE' :
       IF v \in DOMAIN AVAILABLE_FIRMWARE
       THEN AVAILABLE_FIRMWARE'[v] = AVAILABLE_FIRMWARE[v]
       ELSE /\ ReleaseStep
            /\ last'.req.version = v
            /\ last'.res.status = 200
            /\ AVAILABLE_FIRMWARE'[v].filename = last'.req.filename
            /\ FileContent(firmwareDir, last'.req.filename) # ABSENT
            /\ \E i \in 1..Len(last'.ops) :
                  last'.ops[i] = Op("fs.existsSync", last'.req.filename, "true")

\* C17 as stated (under Spec): every catalog key was created by a validated
\* release: the catalog starts without keys and every step is as above.
C17_OnlyReleased_AsStated ==
    /\ DOMAIN AVAILABLE_FIRMWARE = {}
    /\ [][CreatedByValidatedRelease]_vars

\* C17, amended: every catalog key other than the shipped ones was created by a
\* validated release: the catalog starts as the shipped catalog and every step is
\* as above.
C17_OnlyReleased ==
    /\ AVAILABLE_FIRMWARE = InitialFirmware
    /\ [][CreatedByValidatedRelease]_vars

\* Version 3.1.0 was released with a file that has been removed from the firmware
\* directory since.
C17_Witness ==
    /\ "3.1.0" \in DOMAIN AVAILABLE_FIRMWARE
    /\ AVAILABLE_FIRMWARE["3.1.0"].filename = "sketch_feb16_3_1.ino.esp32.bin"
    /\ firmwareDir["sketch_feb16_3_1.ino.esp32.bin"] = ABSENT
    /\ last = IDLE

----------------------------------------------------------------------------
(* The locator of an update offer, under Spec *)

====
